---------------------------- MODULE Spec2Model ----------------------------
(***************************************************************************)
(* Model of the ID-card name / registration-number extraction of           *)
(* processImage.py: lambda_handler collects and sorts the OCR lines,       *)
(* extract_vit_id_multiline locates the registration number, generates     *)
(* and scores merged 1-3 line candidates, selects the best one and         *)
(* normalises it with clean_and_correct_name.                              *)
(*                                                                         *)
(* Text is a sequence of one-character strings, so that the character      *)
(* level operations of the code (upper, strip, split, regular-expression   *)
(* search, capitalize) are computed and not assumed.  Line geometry is in  *)
(* thousandths of the page height (0.015 is 15).  List indices keep the    *)
(* code's 0-based values; a sequence s is read at s[i + 1].                *)
(***************************************************************************)
EXTENDS Integers, Sequences, FiniteSets, TLC

(***************************************************************************)
(* Characters and the str methods the code uses                            *)
(***************************************************************************)
LowerSeq ==
    <<"a","b","c","d","e","f","g","h","i","j","k","l","m",
      "n","o","p","q","r","s","t","u","v","w","x","y","z">>

UpperSeq ==
    <<"A","B","C","D","E","F","G","H","I","J","K","L","M",
      "N","O","P","Q","R","S","T","U","V","W","X","Y","Z">>

LowerLetters == {LowerSeq[i] : i \in 1..26}

UpperLetters == {UpperSeq[i] : i \in 1..26}

Letters == LowerLetters \cup UpperLetters

Digits == {"0","1","2","3","4","5","6","7","8","9"}

\* str.split(), str.strip() and the regular expression class \s
Whitespace == {" "}

\* the regular expression class \w, which decides \b
WordChars == Letters \cup Digits \cup {"_"}

ToUpperMap == [c \in LowerLetters |-> UpperSeq[CHOOSE i \in 1..26 : LowerSeq[i] = c]]

ToLowerMap == [c \in UpperLetters |-> LowerSeq[CHOOSE i \in 1..26 : UpperSeq[i] = c]]

UpperChar(c) == IF c \in LowerLetters THEN ToUpperMap[c] ELSE c

LowerChar(c) == IF c \in UpperLetters THEN ToLowerMap[c] ELSE c

\* str.upper()
upper(s) == [i \in 1..Len(s) |-> UpperChar(s[i])]

\* str.lower()
lower(s) == [i \in 1..Len(s) |-> LowerChar(s[i])]

\* str.capitalize(): first character upper-cased, the rest lower-cased
capitalize(s) ==
    [i \in 1..Len(s) |-> IF i = 1 THEN UpperChar(s[i]) ELSE LowerChar(s[i])]

SetMin(S) == CHOOSE x \in S : \A y \in S : x <= y

SetMax(S) == CHOOSE x \in S : \A y \in S : y <= x

\* str.strip()
strip(s) ==
    LET keep == {i \in 1..Len(s) : s[i] \notin Whitespace}
    IN  IF keep = {} THEN <<>> ELSE SubSeq(s, SetMin(keep), SetMax(keep))

\* s.replace(c, ''): every occurrence of the character c removed
RemoveChar(s, c) == SelectSeq(s, LAMBDA x : x # c)

\* sub in s
Contains(s, sub) ==
    \E p \in 0..(Len(s) - Len(sub)) : \A j \in 1..Len(sub) : s[p + j] = sub[j]

\* number of characters of s that are in the class S
CountIn(s, S) == Cardinality({i \in 1..Len(s) : s[i] \in S})

RECURSIVE join(_)
\* ' '.join(parts)
join(parts) ==
    IF parts = <<>> THEN <<>>
    ELSE IF Len(parts) = 1 THEN parts[1]
    ELSE parts[1] \o <<" ">> \o join(Tail(parts))

RECURSIVE SplitFrom(_, _, _, _)
SplitFrom(s, i, cur, acc) ==
    IF i > Len(s)
    THEN IF cur = <<>> THEN acc ELSE Append(acc, cur)
    ELSE IF s[i] \in Whitespace
         THEN SplitFrom(s, i + 1, <<>>, IF cur = <<>> THEN acc ELSE Append(acc, cur))
         ELSE SplitFrom(s, i + 1, Append(cur, s[i]), acc)

\* str.split(): the maximal runs of non-whitespace characters
split(s) == SplitFrom(s, 1, <<>>, <<>>)

\* every index of a..b is an index of s holding a character of the class S
AllIn(s, a, b, S) == \A i \in a..b : i >= 1 /\ i <= Len(s) /\ s[i] \in S

\* the regular expression assertion \b between s[k] and s[k + 1]
WordBoundary(s, k) ==
    (k >= 1 /\ k <= Len(s) /\ s[k] \in WordChars)
        # (k + 1 >= 1 /\ k + 1 <= Len(s) /\ s[k + 1] \in WordChars)

\* length of the run of whitespace of s that starts at index i
WsRun(s, i) ==
    LET stops == {j \in i..(Len(s) + 1) : j > Len(s) \/ s[j] \notin Whitespace}
    IN  SetMin(stops) - i

(***************************************************************************)
(* STEP 1 of extract_vit_id_multiline: the registration-number patterns    *)
(***************************************************************************)
NotFound == <<"N","o","t"," ","F","o","u","n","d">>

\* r'\b\d{2}[A-Z]{3}\d{4}\b' tried at index p of s: the length matched, 0 if none
MatchStrict(s, p) ==
    IF /\ WordBoundary(s, p - 1)
       /\ AllIn(s, p, p + 1, Digits)
       /\ AllIn(s, p + 2, p + 4, UpperLetters)
       /\ AllIn(s, p + 5, p + 8, Digits)
       /\ WordBoundary(s, p + 8)
    THEN 9 ELSE 0

\* MatchLoose with the quantifier {2,5} in place of {3,5}
MatchLooseTwoToFive(s, p) ==
    LET ks == {k \in 2..5 : /\ AllIn(s, p + 5, p + 4 + k, Digits)
                            /\ WordBoundary(s, p + 4 + k)}
    IN  IF /\ WordBoundary(s, p - 1)
           /\ AllIn(s, p, p + 1, Digits)
           /\ AllIn(s, p + 2, p + 4, UpperLetters)
           /\ ks # {}
        THEN 5 + SetMax(ks) ELSE 0

\* r'\b\d{2}[A-Z]{3}\d{3,5}\b': the greedy {3,5} gives back digits until \b holds
MatchLoose(s, p) ==
    LET ks == {k \in 3..5 : /\ AllIn(s, p + 5, p + 4 + k, Digits)
                            /\ WordBoundary(s, p + 4 + k)}
    IN  IF /\ WordBoundary(s, p - 1)
           /\ AllIn(s, p, p + 1, Digits)
           /\ AllIn(s, p + 2, p + 4, UpperLetters)
           /\ ks # {}
        THEN 5 + SetMax(ks) ELSE 0

\* r'\b\d{2}\s*[A-Z]{3}\s*\d{4}\b'
MatchSpaced(s, p) ==
    LET a == WsRun(s, p + 2)
        b == WsRun(s, p + 5 + a)
    IN  IF /\ WordBoundary(s, p - 1)
           /\ AllIn(s, p, p + 1, Digits)
           /\ AllIn(s, p + 2 + a, p + 4 + a, UpperLetters)
           /\ AllIn(s, p + 5 + a + b, p + 8 + a + b, Digits)
           /\ WordBoundary(s, p + 8 + a + b)
        THEN 9 + a + b ELSE 0

\* the list rg_patterns, by position
rg_patterns(n, s, p) ==
    CASE n = 1 -> MatchStrict(s, p)
      [] n = 2 -> MatchLoose(s, p)
      [] n = 3 -> MatchSpaced(s, p)

\* re.search(rg_patterns[n], s): the leftmost match, <<>> for None
re_search(n, s) ==
    LET ps == {p \in 1..Len(s) : rg_patterns(n, s, p) > 0}
    IN  IF ps = {} THEN <<>>
        ELSE SubSeq(s, SetMin(ps), SetMin(ps) + rg_patterns(n, s, SetMin(ps)) - 1)

\* line.upper().replace(' ', '').replace('-', '')
line_clean(line) == RemoveChar(RemoveChar(upper(line), " "), "-")

\* the inner loop with the 3-to-5-digit pattern tried before the strict one
MatchLoosePatternFirst(line) ==
    LET c == line_clean(line)
    IN  IF re_search(2, c) # <<>> THEN re_search(2, c)
        ELSE IF re_search(1, c) # <<>> THEN re_search(1, c)
        ELSE re_search(3, c)

\* the inner loop over rg_patterns for one line: match.group(0) of the first
\* pattern that matches, <<>> when none does
MatchFirstPattern(line) ==
    LET c  == line_clean(line)
        ns == {n \in 1..3 : re_search(n, c) # <<>>}
    IN  IF ns = {} THEN <<>> ELSE re_search(SetMin(ns), c)

(***************************************************************************)
(* are_blocks_vertically_close                                             *)
(***************************************************************************)
max_gap == 15

are_blocks_vertically_close(blocks) ==
    IF Len(blocks) <= 1 THEN TRUE
    ELSE \A k \in 1..(Len(blocks) - 1) :
            ~(blocks[k + 1].top - (blocks[k].top + blocks[k].height) > max_gap)

\* are_blocks_vertically_close raises TypeError: the loop reaches a block whose
\* height is None, no gap before it having returned False
close_raises(blocks) ==
    \E k \in 1..(Len(blocks) - 1) :
        /\ "none" \in DOMAIN blocks[k] /\ "height" \in blocks[k].none
        /\ \A j \in 1..(k - 1) :
              ~(blocks[j + 1].top - (blocks[j].top + blocks[j].height) > max_gap)

(***************************************************************************)
(* score_name_candidate_multiline                                          *)
(***************************************************************************)
skip_keywords ==
    << <<"V","I","T">>,
       <<"V","E","L","L","O","R","E">>,
       <<"I","N","S","T","I","T","U","T","E">>,
       <<"T","E","C","H","N","O","L","O","G","Y">>,
       <<"C","H","E","N","N","A","I">>,
       <<"C","A","M","P","U","S">>,
       <<"D","E","E","M","E","D">>,
       <<"U","N","I","V","E","R","S","I","T","Y">>,
       <<"U","G","C">>,
       <<"S","E","C","T","I","O","N">>,
       <<"A","C","T">>,
       <<"1","9","5","6">>,
       <<"D","A","Y">>,
       <<"S","C","H","O","L","A","R">>,
       <<"H","O","S","T","E","L">>,
       <<"B","L","O","C","K">>,
       <<"V","A","L","I","D">>,
       <<"U","N","T","I","L">>,
       <<"H","T","T","P">>,
       <<"W","W","W">>,
       <<".","C","O","M">>,
       <<".","I","N">>,
       <<"S","T","U","D","E","N","T">>,
       <<"C","A","R","D">>,
       <<"I","D","E","N","T","I","T","Y">>,
       <<"R","E","G","I","S","T","R","A","T","I","O","N">>,
       <<"N","U","M","B","E","R">>,
       <<"D","A","T","E">>,
       <<"I","S","S","U","E">>,
       <<"B","L","O","O","D">>,
       <<"G","R","O","U","P">> >>

\* re.search(r'\d{2}[A-Z]{3}\d{4}', s) is not None
ContainsRgNumber(s) ==
    \E p \in 1..Len(s) : /\ AllIn(s, p, p + 1, Digits)
                         /\ AllIn(s, p + 2, p + 4, UpperLetters)
                         /\ AllIn(s, p + 5, p + 8, Digits)

\* PositiveScore with the bonuses of two and of three words exchanged
PositiveScoreWordsSwapped(text, raw_lines, start_idx, rg_index, num_lines, near_name_keyword) ==
    LET n          == Len(text)
        words      == SelectSeq(split(text), LAMBDA w : Len(w) >= 2)
        word_count == Len(words)
        distance   == rg_index - (start_idx + num_lines - 1)
        s1 == 5
        s2 == s1 + (IF 8 <= n /\ n <= 50 THEN 5
                    ELSE IF 50 < n /\ n <= 70 THEN 2 ELSE 0)
        s3 == s2 + (IF word_count = 2 THEN 10
                    ELSE IF word_count = 3 THEN 8
                    ELSE IF word_count = 4 THEN 8
                    ELSE IF word_count = 5 THEN 5
                    ELSE IF word_count >= 6 THEN 2 ELSE 0)
        \* alpha_count > len(text) * 0.85
        s4 == s3 + (IF CountIn(text, Letters) * 20 > n * 17 THEN 5 ELSE 0)
        s5 == s4 + (IF CountIn(text, UpperLetters) >= 2 THEN 4 ELSE 0)
        s6 == s5 + (IF num_lines = 2 THEN 6 ELSE IF num_lines = 3 THEN 4 ELSE 0)
        s7 == s6 + (IF rg_index > 0
                    THEN IF distance = 1 THEN 15
                         ELSE IF distance = 2 THEN 10
                         ELSE IF distance = 3 THEN 5 ELSE 0
                    ELSE 0)
        s8 == s7 + (IF near_name_keyword THEN 12 ELSE 0)
        s9 == s8 + 2 * Cardinality({k \in 1..Len(raw_lines) :
                                        Len(strip(raw_lines[k])) >= 3})
    IN  IF s9 > 0 THEN s9 ELSE 0

\* the positive indicators, summed in the order of the code
PositiveScore(text, raw_lines, start_idx, rg_index, num_lines, near_name_keyword) ==
    LET n          == Len(text)
        words      == SelectSeq(split(text), LAMBDA w : Len(w) >= 2)
        word_count == Len(words)
        distance   == rg_index - (start_idx + num_lines - 1)
        s1 == 5
        s2 == s1 + (IF 8 <= n /\ n <= 50 THEN 5
                    ELSE IF 50 < n /\ n <= 70 THEN 2 ELSE 0)
        s3 == s2 + (IF word_count = 2 THEN 8
                    ELSE IF word_count = 3 THEN 10
                    ELSE IF word_count = 4 THEN 8
                    ELSE IF word_count = 5 THEN 5
                    ELSE IF word_count >= 6 THEN 2 ELSE 0)
        \* alpha_count > len(text) * 0.85
        s4 == s3 + (IF CountIn(text, Letters) * 20 > n * 17 THEN 5 ELSE 0)
        s5 == s4 + (IF CountIn(text, UpperLetters) >= 2 THEN 4 ELSE 0)
        s6 == s5 + (IF num_lines = 2 THEN 6 ELSE IF num_lines = 3 THEN 4 ELSE 0)
        s7 == s6 + (IF rg_index > 0
                    THEN IF distance = 1 THEN 15
                         ELSE IF distance = 2 THEN 10
                         ELSE IF distance = 3 THEN 5 ELSE 0
                    ELSE 0)
        s8 == s7 + (IF near_name_keyword THEN 12 ELSE 0)
        s9 == s8 + 2 * Cardinality({k \in 1..Len(raw_lines) :
                                        Len(strip(raw_lines[k])) >= 3})
    IN  IF s9 > 0 THEN s9 ELSE 0

\* score_name_candidate_multiline without the `too many digits` disqualifier
score_without_digit_check(text0, raw_lines, start_idx, rg_index, num_lines, near_name_keyword) ==
    IF text0 = <<>> \/ Len(strip(text0)) < 3 THEN 0
    ELSE LET text       == strip(text0)
             upper_text == upper(text)
         IN  IF \E k \in 1..Len(skip_keywords) : Contains(upper_text, skip_keywords[k])
             THEN 0
             ELSE IF ContainsRgNumber(RemoveChar(upper_text, " ")) THEN 0
             ELSE PositiveScore(text, raw_lines, start_idx, rg_index, num_lines,
                                near_name_keyword)

score_name_candidate_multiline(text0, raw_lines, start_idx, rg_index, num_lines, near_name_keyword) ==
    IF text0 = <<>> \/ Len(strip(text0)) < 3 THEN 0
    ELSE LET text       == strip(text0)
             upper_text == upper(text)
         IN  IF \E k \in 1..Len(skip_keywords) : Contains(upper_text, skip_keywords[k])
             THEN 0
             ELSE IF ContainsRgNumber(RemoveChar(upper_text, " ")) THEN 0
             \* digit_count > len(text) * 0.2
             ELSE IF CountIn(text, Digits) * 5 > Len(text) THEN 0
             ELSE PositiveScore(text, raw_lines, start_idx, rg_index, num_lines,
                                near_name_keyword)

(***************************************************************************)
(* clean_and_correct_name and fix_ocr_errors                               *)
(***************************************************************************)
\* the dict replacements of fix_ocr_errors
OcrReplace(c) ==
    CASE c = "0" -> "O"
      [] c = "1" -> "I"
      [] c = "5" -> "S"
      [] c = "8" -> "B"
      [] OTHER   -> c

\* the dict incomplete_patterns, in insertion order: <<pattern, fix>>
incomplete_patterns ==
    << << <<"a","m","a","n","e","n","i">>,
          <<"A","n","n","a","m","a","n","e","n","i">> >>,
       << <<"n","n","a","m","a","n","e","n","i">>,
          <<"A","n","n","a","m","a","n","e","n","i">> >>,
       << <<"n","a","m","a","n">>,
          <<"A","n","a","m","a","n">> >> >>

fix_ocr_errors(word) ==
    LET corrected  == [i \in 1..Len(word) |-> OcrReplace(word[i])]
        word_lower == lower(word)
        hits == {k \in 1..Len(incomplete_patterns) :
                    Contains(word_lower, incomplete_patterns[k][1])}
    IN  IF Len(word) >= 4 /\ hits # {}
        THEN incomplete_patterns[SetMin(hits)][2]
        ELSE capitalize(corrected)

\* re.sub(r'\s+[A-Za-z]$', '', s): a last letter preceded by whitespace is
\* removed together with the whole whitespace run before it
DropTrailingLetter(s) ==
    LET n == Len(s)
    IN  IF n >= 2 /\ s[n] \in Letters /\ s[n - 1] \in Whitespace
        THEN LET stops == {j \in 0..(n - 1) : j = 0 \/ s[j] \notin Whitespace}
             IN  SubSeq(s, 1, SetMax(stops))
        ELSE s

\* clean_and_correct_name with w.upper() in place of w.capitalize()
clean_with_upper(name) ==
    LET n1 == join(split(name))
        n2 == SelectSeq(n1, LAMBDA c : c \notin Digits)
        n3 == SelectSeq(n2, LAMBDA c : c \in Letters \cup Whitespace \cup {".", "'"})
        words == SelectSeq(split(n3), LAMBDA w : Len(w) >= 2)
        corrected_words == [k \in 1..Len(words) |-> fix_ocr_errors(words[k])]
        formatted == [k \in 1..Len(words) |-> upper(corrected_words[k])]
        final_name == strip(join(formatted))
    IN  DropTrailingLetter(final_name)

clean_and_correct_name(name) ==
    LET n1 == join(split(name))
        n2 == SelectSeq(n1, LAMBDA c : c \notin Digits)
        n3 == SelectSeq(n2, LAMBDA c : c \in Letters \cup Whitespace \cup {".", "'"})
        words == SelectSeq(split(n3), LAMBDA w : Len(w) >= 2)
        corrected_words == [k \in 1..Len(words) |-> fix_ocr_errors(words[k])]
        formatted == [k \in 1..Len(words) |-> capitalize(corrected_words[k])]
        final_name == strip(join(formatted))
    IN  DropTrailingLetter(final_name)

(***************************************************************************)
(* The two list.sort calls: Python's sort is stable, also with reverse=True *)
(***************************************************************************)
\* b placed after every block whose top is not greater
InsertByTop(sorted, b) ==
    LET pos == Cardinality({j \in 1..Len(sorted) : sorted[j].top <= b.top})
    IN  SubSeq(sorted, 1, pos) \o <<b>> \o SubSeq(sorted, pos + 1, Len(sorted))

RECURSIVE SortPrefixByTop(_, _)
SortPrefixByTop(blocks, k) ==
    IF k = 0 THEN <<>> ELSE InsertByTop(SortPrefixByTop(blocks, k - 1), blocks[k])

\* the list left as it was supplied
SortByTopOmitted(blocks) == blocks

\* text_blocks.sort(key=lambda x: x['top'])
SortByTop(blocks) == SortPrefixByTop(blocks, Len(blocks))

\* c placed after every candidate whose score is not smaller
InsertByScore(sorted, c) ==
    LET pos == Cardinality({j \in 1..Len(sorted) : sorted[j].score >= c.score})
    IN  SubSeq(sorted, 1, pos) \o <<c>> \o SubSeq(sorted, pos + 1, Len(sorted))

RECURSIVE SortPrefixByScore(_, _)
SortPrefixByScore(cands, k) ==
    IF k = 0 THEN <<>> ELSE InsertByScore(SortPrefixByScore(cands, k - 1), cands[k])

RECURSIVE SortPrefixUnstable(_, _)
SortPrefixUnstable(cands, k) ==
    IF k = 0 THEN <<>>
    ELSE LET sorted == SortPrefixUnstable(cands, k - 1)
             pos == Cardinality({j \in 1..Len(sorted) : sorted[j].score > cands[k].score})
         IN  SubSeq(sorted, 1, pos) \o <<cands[k]>> \o SubSeq(sorted, pos + 1, Len(sorted))

\* a descending sort that puts a candidate before the earlier ones of its score
SortByScoreDescUnstable(cands) == SortPrefixUnstable(cands, Len(cands))

\* name_candidates.sort(key=lambda x: x['score'], reverse=True)
SortByScoreDesc(cands) == SortPrefixByScore(cands, Len(cands))

(***************************************************************************)
(* The OCR responses the model is run on                                   *)
(***************************************************************************)
T_VIT_UNIVERSITY == <<"V","I","T"," ","U","N","I","V","E","R","S","I","T","Y">>

T_NAME == <<"N","A","M","E">>

T_JOHN_SMITH == <<"J","O","H","N"," ","S","M","I","T","H">>

T_21BCE1234 == <<"2","1","B","C","E","1","2","3","4">>

T_BLOOD_GROUP == <<"B","L","O","O","D"," ","G","R","O","U","P"," ","O","+">>

T_RAVI_KUMAR == <<"R","A","V","I"," ","K","U","M","A","R">>

T_21CSE5678 == <<"2","1","C","S","E","5","6","7","8">>

T_VIT_VELLORE == <<"V","I","T"," ","V","E","L","L","O","R","E">>

T_STUDENT_CARD == <<"S","T","U","D","E","N","T"," ","C","A","R","D">>

T_RAVI == <<"R","A","V","I">>

T_KUMAR == <<" ","K","u","m","a","r"," ">>

T_VARMA == <<"V","A","R","M","A">>

T_LOOSE_ID == <<"2","1","-","b","c","e","-","1","2","3">>

T_DIGITS == <<"9","8","7","6","5","4","3">>

T_ANIL == <<"A","N","I","L"," ","K","4">>

\* two digits short of a registration number
T_SHORT_ID == <<"2","1","B","C","E","1","2">>

T_LOWER == <<"j","o","h","n">>

\* a 3-digit number, then a registration number, on one line
T_TWO_IDS == <<"2","1","B","C","E","1","2","3","/","2","2","B","C","E","1","2","3","4">>

T_LONG_NAME == <<"R","A","V","I"," ","K","U","M","A","R"," ","V","A","R","M","A"," ","R","E","D","D","Y">>

\* a registration number written with hyphens
T_HYPHEN_ID == <<"2","1","-","B","C","E","-","1","2","3","4">>

ScenarioA == <<T_VIT_UNIVERSITY, T_NAME, T_JOHN_SMITH, T_21BCE1234, T_BLOOD_GROUP>>

ScenarioB == <<T_RAVI_KUMAR, T_21CSE5678>>

ScenarioC == <<T_VIT_VELLORE, T_STUDENT_CARD>>

\* Scenario D: a name line merged with a line of digits
ScenarioD == <<T_NAME, T_RAVI_KUMAR, T_DIGITS, T_21BCE1234>>

\* a name split over three lines above the registration number
ScenarioE == <<T_RAVI, T_KUMAR, T_VARMA, T_21BCE1234>>

\* lower-case and padded lines after a NAME line
ScenarioF == <<T_NAME, T_LOWER, T_KUMAR>>

\* two NAME lines: the merges after them reach equal scores
ScenarioG == <<T_NAME, T_NAME, T_RAVI_KUMAR, T_VARMA>>

\* a line that falls short of every registration-number pattern
ScenarioH == <<T_RAVI_KUMAR, T_SHORT_ID>>

\* a line that the strict and the 3-to-5-digit pattern match at different places,
\* above a line that holds a registration number too
ScenarioJ == <<T_RAVI_KUMAR, T_TWO_IDS, T_21BCE1234>>

\* seven lines above the registration number: the first one is out of the window
ScenarioI ==
    <<T_JOHN_SMITH, T_RAVI, T_KUMAR, T_VARMA, T_LOWER, T_ANIL, T_RAVI_KUMAR, T_21BCE1234>>

\* a NAME line, a long name, a registration number written with hyphens, and a
\* line after it
ScenarioK == <<T_NAME, T_LONG_NAME, T_HYPHEN_ID, T_VARMA>>

\* the same with a number of three digits after the letters
ScenarioL == <<T_NAME, T_LONG_NAME, T_LOOSE_ID, T_VARMA>>

\* the lists run with one shape for all their lines
LongScenarios == {ScenarioI, ScenarioK, ScenarioL}

Scenarios ==
    {ScenarioA, ScenarioB, ScenarioC, ScenarioD, ScenarioE, ScenarioF, ScenarioG, ScenarioH,
     ScenarioJ}

\* the lines of the freely combined lists
TextPool == {T_NAME, T_RAVI_KUMAR, T_21BCE1234, T_VIT_VELLORE, T_LOOSE_ID, T_ANIL}

\* longest freely combined list
MaxLines == 2

FreeLists == UNION {[1..n -> TextPool] : n \in 0..MaxLines}

\* <<distance of a line's top from the top of the line before, its height>>
Shapes == {<<0, 10>>, <<20, 10>>, <<20, 4>>}

\* the shapes of the lines of the freely combined lists
FreeShapes == {<<20, 10>>, <<20, 4>>}

RECURSIVE TopOf(_, _)
TopOf(shape, k) == IF k = 0 THEN 0 ELSE TopOf(shape, k - 1) + shape[k][1]

\* the LINE blocks of a page, from top to bottom
PageBlocks(texts, shape) ==
    [k \in 1..Len(texts) |->
        [BlockType |-> "LINE", Text |-> texts[k],
         Top |-> TopOf(shape, k), Height |-> shape[k][2]]]

Reversed(s) == [k \in 1..Len(s) |-> s[Len(s) + 1 - k]]

PageBlock == [BlockType |-> "PAGE", Text |-> <<>>, Top |-> 0, Height |-> 1000]

Response(texts, shape, rev) ==
    [Blocks |-> <<PageBlock>> \o (IF rev THEN Reversed(PageBlocks(texts, shape))
                                         ELSE PageBlocks(texts, shape))]

\* what detect_document_text returns: the PAGE block, then the LINE blocks; those
\* of a scenario in reading order or in the opposite order, with any shape; those
\* of a freely combined list in reading order, 20 apart; those of a longer list
\* in reading order, all of one shape
Responses ==
    UNION ({{Response(t, shape, rev) : shape \in [1..Len(t) -> Shapes], rev \in BOOLEAN} :
               t \in Scenarios}
           \cup
           {{Response(t, shape, FALSE) : shape \in [1..Len(t) -> FreeShapes]} :
               t \in FreeLists}
           \cup
           {{Response(t, [k \in 1..Len(t) |-> sh], FALSE) : sh \in Shapes} :
               t \in LongScenarios})

\* a response that holds no 'Blocks' collection
NoBlocksResponse == [ResponseMetadata |-> "RequestId"]

(***************************************************************************)
(* State                                                                   *)
(***************************************************************************)
VARIABLES
    pc,               \* position in lambda_handler / extract_vit_id_multiline
    response,         \* the OCR response lambda_handler received
    text_blocks,      \* lambda_handler's list of line records
    lines,            \* the stripped line texts
    rg_number,        \* the registration number, or "Not Found"
    rg_index,         \* its line index, or -1
    name_candidates,  \* the candidate pool
    i,                \* loop index of the anchor loop and of the keyword loop
    num_lines,        \* span length of the current merge
    start_idx,        \* first line of the current merge
    merged_text,      \* text of the merge scored last
    score,            \* value score_name_candidate_multiline returned last
    raw_name,         \* the text handed to clean_and_correct_name
    cleaned_name,     \* <<>> until clean_and_correct_name has run, then <<its value>>
    result,           \* what extract_vit_id_multiline returned / the error body
    statusCode        \* statusCode of lambda_handler's return value, 0 before it

vars == <<pc, response, text_blocks, lines, rg_number, rg_index, name_candidates,
          i, num_lines, start_idx, merged_text, score, raw_name, cleaned_name,
          result, statusCode>>

Unknown == <<"U","n","k","n","o","w","n">>

ErrorProcessing == <<"E","r","r","o","r"," ","P","r","o","c","e","s","s","i","n","g">>

ErrorRg == <<"E","R","R","O","R">>

NoResult == [pending |-> TRUE]

Init ==
    /\ response \in Responses \cup {NoBlocksResponse}
    /\ pc = "handler"
    /\ text_blocks = <<>>
    /\ lines = <<>>
    /\ rg_number = NotFound
    /\ rg_index = -1
    /\ name_candidates = <<>>
    /\ i = 0
    /\ num_lines = 1
    /\ start_idx = 0
    /\ merged_text = <<>>
    /\ score = 0
    /\ raw_name = <<>>
    /\ cleaned_name = <<>>
    /\ result = NoResult
    /\ statusCode = 0

(***************************************************************************)
(* lambda_handler, up to the call of extract_vit_id_multiline              *)
(***************************************************************************)
\* A block is a record of its keys.  A key whose value is None carries no value:
\* it is listed in the block's field None.  A key the block does not hold is
\* neither a field nor listed there.
NoneKeys(b) == IF "None" \in DOMAIN b THEN b.None ELSE {}

\* the keys the loop of lambda_handler reads from a LINE block and its bounding
\* box, of those the model keeps
LineKeys == {"Text", "Top", "Height"}

\* block['Text'], bbox['Top'] or bbox['Height'] raises KeyError for the block
KeyMissing(b) == \E key \in LineKeys : key \notin DOMAIN b /\ key \notin NoneKeys(b)

\* the dict appended to text_blocks for a LINE block; a None is copied as it is
\* and listed in the field none
LineRecord(b) ==
    CASE NoneKeys(b) = {} -> [text |-> b.Text, top |-> b.Top, height |-> b.Height]
      [] NoneKeys(b) = {"Text"} -> [top |-> b.Top, height |-> b.Height, none |-> {"text"}]
      [] NoneKeys(b) = {"Top"} -> [text |-> b.Text, height |-> b.Height, none |-> {"top"}]
      [] NoneKeys(b) = {"Height"} -> [text |-> b.Text, top |-> b.Top, none |-> {"height"}]

\* the keys of a line record whose value is None
NoneFields(rec) == IF "none" \in DOMAIN rec THEN rec.none ELSE {}

\* the loop that builds text_blocks from the LINE blocks
LineRecords(blocks) ==
    LET ls == SelectSeq(blocks, LAMBDA b : b.BlockType = "LINE")
    IN  [k \in 1..Len(ls) |-> LineRecord(ls[k])]

\* the try block raises KeyError before the sort: response['Blocks'], or a key of
\* a LINE block, is not there
CollectKeyError(resp) ==
    IF "Blocks" \notin DOMAIN resp THEN TRUE
    ELSE \E k \in 1..Len(resp.Blocks) :
            resp.Blocks[k].BlockType = "LINE" /\ KeyMissing(resp.Blocks[k])

\* a top that is None raises TypeError: in the sort when it is compared, and at
\* the latest in the print of line 66, which formats every top with .3f
TopTypeError(resp) ==
    /\ ~CollectKeyError(resp)
    /\ \E k \in 1..Len(resp.Blocks) :
          resp.Blocks[k].BlockType = "LINE" /\ "Top" \in NoneKeys(resp.Blocks[k])

\* response['Blocks'] is read, the LINE blocks are collected and sorted by top
CollectLines ==
    /\ pc = "handler"
    /\ ~CollectKeyError(response)
    /\ ~TopTypeError(response)
    /\ text_blocks' = SortByTop(LineRecords(response.Blocks))
    /\ pc' = "extract"
    /\ UNCHANGED <<response, lines, rg_number, rg_index, name_candidates, i, num_lines,
                   start_idx, merged_text, score, raw_name, cleaned_name, result, statusCode>>

\* the exception in flight, by the name of its class
Raised(class) == [raised |-> class]

\* the collection, the sort or the print raises: control passes to the except
\* clause
CollectRaises ==
    /\ pc = "handler"
    /\ ~(~CollectKeyError(response) /\ ~TopTypeError(response))
    /\ result' = Raised(IF CollectKeyError(response) THEN "KeyError" ELSE "TypeError")
    /\ pc' = "except"
    /\ UNCHANGED <<response, text_blocks, lines, rg_number, rg_index, name_candidates, i,
                   num_lines, start_idx, merged_text, score, raw_name, cleaned_name,
                   statusCode>>

\* the except clause: the 500 response
HandlerExcept ==
    /\ pc = "except"
    /\ result' = [error |-> result.raised, name |-> ErrorProcessing, rgNumber |-> ErrorRg,
                  success |-> FALSE]
    /\ statusCode' = 500
    /\ pc' = "done"
    /\ UNCHANGED <<response, text_blocks, lines, rg_number, rg_index, name_candidates, i,
                   num_lines, start_idx, merged_text, score, raw_name, cleaned_name>>

(***************************************************************************)
(* extract_vit_id_multiline                                                *)
(***************************************************************************)
\* lines = [...strip()], rg_number = "Not Found", rg_index = -1
ExtractBegin ==
    /\ pc = "extract"
    /\ \A k \in 1..Len(text_blocks) : "text" \notin NoneFields(text_blocks[k])
    /\ lines' = [k \in 1..Len(text_blocks) |-> strip(text_blocks[k].text)]
    /\ rg_number' = NotFound
    /\ rg_index' = -1
    /\ i' = 0
    /\ pc' = "anchor"
    /\ UNCHANGED <<response, text_blocks, name_candidates, num_lines, start_idx,
                   merged_text, score, raw_name, cleaned_name, result, statusCode>>

\* block['text'].strip() raises AttributeError for a text that is None
ExtractRaises ==
    /\ pc = "extract"
    /\ \E k \in 1..Len(text_blocks) : "text" \in NoneFields(text_blocks[k])
    /\ result' = Raised("AttributeError")
    /\ pc' = "except"
    /\ UNCHANGED <<response, text_blocks, lines, rg_number, rg_index, name_candidates, i,
                   num_lines, start_idx, merged_text, score, raw_name, cleaned_name,
                   statusCode>>

\* max(0, rg_index - 7)
search_start_seven(idx) == IF idx - 7 > 0 THEN idx - 7 ELSE 0

\* max(0, rg_index - 6)
search_start(idx) == IF idx - 6 > 0 THEN idx - 6 ELSE 0

\* the anchor loop is left: name_candidates = [], then STEP 2 if rg_index > 0 and
\* STEP 3 otherwise
LeaveAnchorLoop(idx) ==
    /\ name_candidates' = <<>>
    /\ IF idx > 0
       THEN /\ pc' = "above"
            /\ num_lines' = 1
            /\ start_idx' = search_start(idx)
            /\ i' = i
       ELSE /\ pc' = "keyword"
            /\ i' = 0
            /\ UNCHANGED <<num_lines, start_idx>>

\* one iteration of the loop over the lines of STEP 1
AnchorLine ==
    /\ pc = "anchor"
    /\ i < Len(lines)
    /\ LET m == MatchFirstPattern(lines[i + 1])
           number == IF m # <<>> THEN m ELSE rg_number
           index  == IF m # <<>> THEN i ELSE rg_index
       IN  /\ rg_number' = number
           /\ rg_index' = index
           /\ IF number # NotFound
              THEN LeaveAnchorLoop(index)
              ELSE /\ i' = i + 1
                   /\ pc' = "anchor"
                   /\ UNCHANGED <<name_candidates, num_lines, start_idx>>
    /\ UNCHANGED <<response, text_blocks, lines, merged_text, score, raw_name, cleaned_name,
                   result, statusCode>>

\* the loop of STEP 1 ends without a match
AnchorNotFound ==
    /\ pc = "anchor"
    /\ i >= Len(lines)
    /\ LeaveAnchorLoop(rg_index)
    /\ UNCHANGED <<response, text_blocks, lines, rg_number, rg_index, merged_text, score,
                   raw_name, cleaned_name, result, statusCode>>

\* the candidate dict
Candidate(name, sc, n, start, raw) ==
    [name |-> name, score |-> sc, lines |-> n, start_idx |-> start,
     end_idx |-> start + n, raw_lines |-> raw]

\* `if score >= 0:`
IsRetainedNonNegative(sc) == sc >= 0

\* `if score > 0:` before a candidate is appended
IsRetained(sc) == sc > 0

\* the score stored without the + 10
KeywordStoredScoreNoBonus(sc) == sc

\* 'score': score + 10, the score stored for a candidate found after NAME
KeywordStoredScore(sc) == sc + 10

\* STEP 2, the loops go on with the next span length, or STEP 3 begins
AboveNextLength ==
    IF num_lines < 3
    THEN /\ num_lines' = num_lines + 1
         /\ start_idx' = search_start(rg_index)
         /\ pc' = "above"
         /\ i' = i
    ELSE /\ pc' = "keyword"
         /\ i' = 0
         /\ UNCHANGED <<num_lines, start_idx>>

\* STEP 2, the inner loop goes on with the next start_idx of range(search_start, search_end)
AboveNextStart ==
    IF start_idx + 1 < rg_index
    THEN /\ start_idx' = start_idx + 1
         /\ pc' = "above"
         /\ UNCHANGED <<num_lines, i>>
    ELSE AboveNextLength

\* `if end_idx > search_end: break`
AboveBreak ==
    /\ pc = "above"
    /\ start_idx + num_lines > rg_index
    /\ AboveNextLength
    /\ UNCHANGED <<response, text_blocks, lines, rg_number, rg_index, name_candidates,
                   merged_text, score, raw_name, cleaned_name, result, statusCode>>

\* text_blocks[start_idx:end_idx] of the current span
blocks_to_merge == SubSeq(text_blocks, start_idx + 1, start_idx + num_lines)

\* the call of are_blocks_vertically_close raises TypeError
AboveRaises ==
    /\ pc = "above"
    /\ ~(start_idx + num_lines > rg_index)
    /\ num_lines > 1
    /\ close_raises(blocks_to_merge)
    /\ result' = Raised("TypeError")
    /\ pc' = "except"
    /\ UNCHANGED <<response, text_blocks, lines, rg_number, rg_index, name_candidates, i,
                   num_lines, start_idx, merged_text, score, raw_name, cleaned_name,
                   statusCode>>

\* `if not are_blocks_vertically_close(blocks_to_merge): continue`
AboveNotClose ==
    /\ pc = "above"
    /\ ~(start_idx + num_lines > rg_index)
    /\ num_lines > 1
    /\ ~close_raises(blocks_to_merge)
    /\ ~are_blocks_vertically_close(SubSeq(text_blocks, start_idx + 1, start_idx + num_lines))
    /\ AboveNextStart
    /\ UNCHANGED <<response, text_blocks, lines, rg_number, rg_index, name_candidates,
                   merged_text, score, raw_name, cleaned_name, result, statusCode>>

\* the span is merged and scored, and appended when its score is positive
AboveScore ==
    /\ pc = "above"
    /\ ~(start_idx + num_lines > rg_index)
    /\ num_lines > 1 =>
          /\ ~close_raises(blocks_to_merge)
          /\ are_blocks_vertically_close(SubSeq(text_blocks, start_idx + 1, start_idx + num_lines))
    /\ LET merged_lines == SubSeq(lines, start_idx + 1, start_idx + num_lines)
           text == join(merged_lines)
           sc   == score_name_candidate_multiline(text, merged_lines, start_idx, rg_index,
                                                  num_lines, FALSE)
       IN  /\ merged_text' = text
           /\ score' = sc
           /\ name_candidates' =
                 IF IsRetained(sc)
                 THEN Append(name_candidates,
                             Candidate(text, sc, num_lines, start_idx, merged_lines))
                 ELSE name_candidates
    /\ AboveNextStart
    /\ UNCHANGED <<response, text_blocks, lines, rg_number, rg_index, raw_name,
                   cleaned_name, result, statusCode>>

\* STEP 3, a line of the loop over the lines: `if 'NAME' in line.upper():`
KeywordLine ==
    /\ pc = "keyword"
    /\ i < Len(lines)
    /\ IF Contains(upper(lines[i + 1]), <<"N","A","M","E">>)
       THEN /\ pc' = "after_name"
            /\ num_lines' = 1
            /\ i' = i
       ELSE /\ pc' = "keyword"
            /\ i' = i + 1
            /\ UNCHANGED num_lines
    /\ UNCHANGED <<response, text_blocks, lines, rg_number, rg_index, name_candidates,
                   start_idx, merged_text, score, raw_name, cleaned_name, result,
                   statusCode>>

\* STEP 3, the loop over the lines ends
KeywordDone ==
    /\ pc = "keyword"
    /\ i >= Len(lines)
    /\ pc' = "select"
    /\ UNCHANGED <<response, text_blocks, lines, rg_number, rg_index, name_candidates, i,
                   num_lines, start_idx, merged_text, score, raw_name, cleaned_name,
                   result, statusCode>>

\* STEP 3, the loop over [1, 2, 3] goes on, or the loop over the lines does
AfterNameNext ==
    IF num_lines < 3
    THEN /\ num_lines' = num_lines + 1
         /\ pc' = "after_name"
         /\ i' = i
    ELSE /\ pc' = "keyword"
         /\ i' = i + 1
         /\ UNCHANGED num_lines

\* `if i + num_lines < len(lines):` holds: the lines after NAME are merged and
\* scored, and appended with score + 10 when the score is positive
AfterNameScore ==
    /\ pc = "after_name"
    /\ i + num_lines < Len(lines)
    /\ start_idx' = i + 1
    /\ IF i + 1 + num_lines > Len(lines)
       THEN \* `if end_idx > len(lines): break`
            /\ pc' = "keyword"
            /\ i' = i + 1
            /\ UNCHANGED <<num_lines, merged_text, score, name_candidates>>
       ELSE /\ LET merged_lines == SubSeq(lines, i + 2, i + 1 + num_lines)
                   text == join(merged_lines)
                   sc   == score_name_candidate_multiline(text, merged_lines, i + 1,
                                                          rg_index, num_lines, TRUE)
               IN  /\ merged_text' = text
                   /\ score' = sc
                   /\ name_candidates' =
                         IF IsRetained(sc)
                         THEN Append(name_candidates,
                                     Candidate(text, KeywordStoredScore(sc), num_lines,
                                               i + 1, merged_lines))
                         ELSE name_candidates
            /\ AfterNameNext
    /\ UNCHANGED <<response, text_blocks, lines, rg_number, rg_index, raw_name,
                   cleaned_name, result, statusCode>>

\* `if i + num_lines < len(lines):` fails: nothing is merged
AfterNameTooFew ==
    /\ pc = "after_name"
    /\ ~(i + num_lines < Len(lines))
    /\ AfterNameNext
    /\ UNCHANGED <<response, text_blocks, lines, rg_number, rg_index, name_candidates,
                   start_idx, merged_text, score, raw_name, cleaned_name, result,
                   statusCode>>

\* the dict extract_vit_id_multiline returns; topCandidate is <<>> for None
ExtractResult(name, cands) ==
    [name |-> name, rgNumber |-> rg_number, success |-> TRUE,
     debug |-> [totalLines |-> Len(lines), rgFoundAt |-> rg_index,
                candidatesFound |-> Len(cands),
                topCandidate |-> IF cands # <<>> THEN <<cands[1]>> ELSE <<>>]]

\* STEP 4 with a candidate: the pool is sorted, its first element is cleaned
SelectBest ==
    /\ pc = "select"
    /\ name_candidates # <<>>
    /\ LET sorted == SortByScoreDesc(name_candidates)
           best   == sorted[1]
           cleaned == clean_and_correct_name(best.name)
       IN  /\ name_candidates' = sorted
           /\ raw_name' = best.name
           /\ cleaned_name' = <<cleaned>>
           /\ result' = ExtractResult(cleaned, sorted)
    /\ pc' = "return"
    /\ UNCHANGED <<response, text_blocks, lines, rg_number, rg_index, i, num_lines,
                   start_idx, merged_text, score, statusCode>>

\* STEP 4 without a candidate: name = "Unknown"
SelectNone ==
    /\ pc = "select"
    /\ name_candidates = <<>>
    /\ result' = ExtractResult(Unknown, name_candidates)
    /\ pc' = "return"
    /\ UNCHANGED <<response, text_blocks, lines, rg_number, rg_index, name_candidates, i,
                   num_lines, start_idx, merged_text, score, raw_name, cleaned_name,
                   statusCode>>

\* lambda_handler returns the 200 response
HandlerReturn ==
    /\ pc = "return"
    /\ statusCode' = 200
    /\ pc' = "done"
    /\ UNCHANGED <<response, text_blocks, lines, rg_number, rg_index, name_candidates, i,
                   num_lines, start_idx, merged_text, score, raw_name, cleaned_name,
                   result>>

Next ==
    \/ CollectLines
    \/ CollectRaises
    \/ HandlerExcept
    \/ ExtractBegin
    \/ AnchorLine
    \/ AnchorNotFound
    \/ AboveBreak
    \/ AboveNotClose
    \/ AboveScore
    \/ KeywordLine
    \/ KeywordDone
    \/ AfterNameScore
    \/ AfterNameTooFew
    \/ SelectBest
    \/ SelectNone
    \/ HandlerReturn

Spec == Init /\ [][Next]_vars

(***************************************************************************)
(* clean_and_correct_name on its own: applied to a name, then to its result *)
(***************************************************************************)
NamePieces ==
    {<<"J","o","h","n">>, <<"S","m","i","t","h">>, <<"J","O","H","N">>, <<"s","m","i","t","h">>, <<"R","a","m","a","n","e","n","i">>, <<"N","a","m","a","n","a">>, <<"A","n","n","a","m","a","n","e","n","i">>, <<"A","n","a","m","a","n">>,
     <<"K">>, <<"a",".">>, <<"O","'","N","e","i","l">>, <<"J","0","h","n">>, <<"x","-","y">>, <<"5">>}

NameSeparators == {<<" ">>, <<" "," ">>}

\* most pieces joined into one name
MaxPieces == 2

RECURSIVE JoinWith(_, _)
JoinWith(pieces, sep) ==
    IF pieces = <<>> THEN <<>>
    ELSE IF Len(pieces) = 1 THEN pieces[1]
    ELSE pieces[1] \o sep \o JoinWith(Tail(pieces), sep)

NameInputs ==
    UNION {{JoinWith(ps, sep) : ps \in [1..n -> NamePieces], sep \in NameSeparators} :
              n \in 0..MaxPieces}

InitClean ==
    /\ raw_name \in NameInputs
    /\ pc = "clean"
    /\ response = NoBlocksResponse
    /\ text_blocks = <<>>
    /\ lines = <<>>
    /\ rg_number = NotFound
    /\ rg_index = -1
    /\ name_candidates = <<>>
    /\ i = 0
    /\ num_lines = 1
    /\ start_idx = 0
    /\ merged_text = <<>>
    /\ score = 0
    /\ cleaned_name = <<>>
    /\ result = NoResult
    /\ statusCode = 0

\* cleaned_name = clean_and_correct_name(raw_name)
CleanOnce ==
    /\ pc = "clean"
    /\ cleaned_name' = <<clean_and_correct_name(raw_name)>>
    /\ pc' = "cleaned"
    /\ UNCHANGED <<response, text_blocks, lines, rg_number, rg_index, name_candidates, i,
                   num_lines, start_idx, merged_text, score, raw_name, result, statusCode>>

\* the cleaned name is handed to clean_and_correct_name again
CleanAgain ==
    /\ pc = "cleaned"
    /\ raw_name' = cleaned_name[1]
    /\ cleaned_name' = <<clean_and_correct_name(cleaned_name[1])>>
    /\ pc' = "recleaned"
    /\ UNCHANGED <<response, text_blocks, lines, rg_number, rg_index, name_candidates, i,
                   num_lines, start_idx, merged_text, score, result, statusCode>>

NextClean ==
    \/ CleanOnce
    \/ CleanAgain

SpecClean == InitClean /\ [][NextClean]_vars

(***************************************************************************)
(* lambda_handler on responses one of whose LINE blocks lacks a key or     *)
(* holds None for it                                                       *)
(***************************************************************************)
\* the block without the key
WithoutKey(b, key) == [k \in DOMAIN b \ {key} |-> b[k]]

\* the block with None as the value of the key
WithNone(b, key) == WithoutKey(b, key) @@ [None |-> {key}]

FaultKinds == {"missing", "None"}

\* the response of Response(texts, shape, FALSE) with the key of its k-th line
\* missing or None
FaultyResponse(texts, shape, k, key, kind) ==
    LET blocks == Response(texts, shape, FALSE).Blocks
    IN  [Blocks |-> [j \in 1..Len(blocks) |->
                        IF j # k + 1 THEN blocks[j]
                        ELSE IF kind = "missing" THEN WithoutKey(blocks[j], key)
                        ELSE WithNone(blocks[j], key)]]

\* the line lists the faults are put into
FaultScenarios == {ScenarioA, ScenarioC, ScenarioE, ScenarioF}

FaultyResponses ==
    UNION {{FaultyResponse(t, shape, k, key, kind) :
               shape \in [1..Len(t) -> FreeShapes], k \in 1..Len(t),
               key \in LineKeys, kind \in FaultKinds} : t \in FaultScenarios}

\* the same lists without a fault
SoundResponses ==
    UNION {{Response(t, shape, FALSE) : shape \in [1..Len(t) -> FreeShapes]} :
              t \in FaultScenarios}

InitFault ==
    /\ response \in FaultyResponses \cup SoundResponses \cup {NoBlocksResponse}
    /\ pc = "handler"
    /\ text_blocks = <<>>
    /\ lines = <<>>
    /\ rg_number = NotFound
    /\ rg_index = -1
    /\ name_candidates = <<>>
    /\ i = 0
    /\ num_lines = 1
    /\ start_idx = 0
    /\ merged_text = <<>>
    /\ score = 0
    /\ raw_name = <<>>
    /\ cleaned_name = <<>>
    /\ result = NoResult
    /\ statusCode = 0

\* Next and the two steps that raise on a None that the collection let through
NextFault ==
    \/ Next
    \/ ExtractRaises
    \/ AboveRaises

SpecFault == InitFault /\ [][NextFault]_vars

(***************************************************************************)
(* Properties                                                              *)
(***************************************************************************)
\* the vertical gap between a line record and the next one
Gap(cur, next) == next.top - (cur.top + cur.height)

\* C1: every candidate held in the pool, from either pass, has a stored score
\* strictly greater than 0; a merge scoring 0 or less is never in the pool.
C1_PoolScoresPositive ==
    \A k \in 1..Len(name_candidates) : name_candidates[k].score > 0

\* Scenario A has run on lines that are not close: three merges were retained (one
\* above the anchor twice over, one after NAME), the others were discarded
C1_Witness ==
    /\ pc = "done"
    /\ lines = ScenarioA
    /\ Len(name_candidates) = 3

\* C2: no candidate of the pool is a 2-line span of two consecutive lines whose
\* vertical gap exceeds 0.015, whichever pass produced it.
C2_NoDistantPairInPool ==
    \A k \in 1..Len(name_candidates) :
        LET c == name_candidates[k]
        IN  c.lines = 2 =>
              ~(Gap(text_blocks[c.start_idx + 1], text_blocks[c.start_idx + 2]) > 15)

\* index of the candidate of the highest score that was generated first
FirstMaxIndex(cands) ==
    CHOOSE k \in 1..Len(cands) :
        /\ \A j \in 1..Len(cands) : cands[j].score <= cands[k].score
        /\ \A j \in 1..(k - 1) : cands[j].score < cands[k].score

\* C3: when the pool is not empty, the selected candidate (topCandidate, whose
\* text is normalised into the name) has the highest stored score of the pool
\* and, among the candidates of that score, is the one generated first.
C3_SelectsFirstMaximum ==
    [][(pc = "select" /\ pc' = "return" /\ name_candidates # <<>>) =>
          LET first == name_candidates[FirstMaxIndex(name_candidates)]
          IN  /\ result'.debug.topCandidate = <<first>>
              /\ raw_name' = first.name
              /\ result'.name = clean_and_correct_name(first.name)]_vars

\* a selection was made between two candidates of the same, highest score
C3_Witness ==
    /\ pc = "done"
    /\ Len(name_candidates) >= 2
    /\ name_candidates[1].score = name_candidates[2].score
    /\ name_candidates[1].name # name_candidates[2].name

\* 2 digits + 3 letters + 4 digits
IsStrictShape(s) ==
    /\ Len(s) = 9
    /\ \A k \in 1..9 : s[k] \in (IF k \in 3..5 THEN UpperLetters ELSE Digits)

\* 2 digits + 3 letters + 3 to 5 digits
IsLooseShape(s) ==
    /\ Len(s) \in 8..10
    /\ \A k \in 1..Len(s) : s[k] \in (IF k \in 3..5 THEN UpperLetters ELSE Digits)

\* the strict form with whitespace allowed around the letters
IsSpacedShape(s) ==
    \E a \in 0..Len(s) : \E b \in 0..Len(s) :
        /\ Len(s) = 9 + a + b
        /\ AllIn(s, 1, 2, Digits)
        /\ AllIn(s, 3, 2 + a, Whitespace)
        /\ AllIn(s, 3 + a, 5 + a, UpperLetters)
        /\ AllIn(s, 6 + a, 5 + a + b, Whitespace)
        /\ AllIn(s, 6 + a + b, 9 + a + b, Digits)

\* C4: the returned identifier is "Not Found" or has one of the three identifier
\* shapes; the reported anchor index is -1 exactly when the identifier is
\* "Not Found", and otherwise is the index of a line that contains the identifier
\* once upper-cased and freed of spaces and hyphens.
C4_IdentifierShapeAndIndex ==
    (pc = "done" /\ statusCode = 200) =>
        LET id  == result.rgNumber
            idx == result.debug.rgFoundAt
        IN  /\ id = NotFound \/ IsStrictShape(id) \/ IsLooseShape(id) \/ IsSpacedShape(id)
            /\ (idx = -1) <=> (id = NotFound)
            /\ idx # -1 =>
                  /\ idx \in 0..(Len(lines) - 1)
                  /\ Contains(SelectSeq(upper(lines[idx + 1]), LAMBDA c : c \notin {" ", "-"}), id)

\* an identifier was found in a line written in lower case with hyphens
C4_Witness ==
    /\ pc = "done"
    /\ statusCode = 200
    /\ result.rgNumber = <<"2","1","B","C","E","1","2","3">>
    /\ result.debug.rgFoundAt >= 0
    /\ lines[result.debug.rgFoundAt + 1] = T_LOOSE_ID

\* the additive signals of the scoring table, for a merged text and its span
TableScore(text, sourceLines, spanStart, spanLength, anchorIndex) ==
    LET t        == strip(text)
        len      == Len(t)
        \* tokens of two or more characters: a token starts at k, and goes on at k + 1
        tokens   == Cardinality({k \in 1..(len - 1) :
                                    /\ t[k] # " " /\ t[k + 1] # " "
                                    /\ (k = 1 \/ t[k - 1] = " ")})
        alpha    == Cardinality({k \in 1..len : t[k] \in Letters})
        capitals == Cardinality({k \in 1..len : t[k] \in UpperLetters})
        distance == anchorIndex - (spanStart + spanLength - 1)
        nontrivial == Cardinality({k \in 1..Len(sourceLines) :
                                      Len(strip(sourceLines[k])) >= 3})
    IN  5
        + (CASE len \in 8..50 -> 5 [] len \in 51..70 -> 2 [] OTHER -> 0)
        + (CASE tokens \in {2, 4} -> 8 [] tokens = 3 -> 10 [] tokens = 5 -> 5
             [] tokens >= 6 -> 2 [] OTHER -> 0)
        + (IF 100 * alpha > 85 * len THEN 5 ELSE 0)
        + (IF capitals >= 2 THEN 4 ELSE 0)
        + (CASE spanLength = 2 -> 6 [] spanLength = 3 -> 4 [] OTHER -> 0)
        + (IF anchorIndex >= 0
           THEN CASE distance = 1 -> 15 [] distance = 2 -> 10 [] distance = 3 -> 5
                  [] OTHER -> 0
           ELSE 0)
        + 2 * nontrivial

\* the candidate a step appends to the pool
Appended == name_candidates'[Len(name_candidates')]

\* C5 as stated: the stored score of every candidate is the sum of the signals of
\* the scoring table, with a keyword contribution of exactly +12 for a candidate
\* of the NAME-keyword pass and 0 otherwise.
C5_StoredScoreIsTableSumPlus12 ==
    [][Len(name_candidates') = Len(name_candidates) + 1 =>
          Appended.score =
              TableScore(Appended.name, Appended.raw_lines, Appended.start_idx,
                         Appended.lines, rg_index)
              + (IF pc = "after_name" THEN 12 ELSE 0)]_vars

\* C5 as amended: the keyword contribution to the stored score is +22, the +12 of
\* the scorer and the +10 added when the candidate is stored.
C5_StoredScoreIsTableSumPlus22 ==
    [][Len(name_candidates') = Len(name_candidates) + 1 =>
          Appended.score =
              TableScore(Appended.name, Appended.raw_lines, Appended.start_idx,
                         Appended.lines, rg_index)
              + (IF pc = "after_name" THEN 22 ELSE 0)]_vars

\* the pool holds the same one-line span twice: scored 44 above the anchor and
\* stored with 66 after NAME
C5_Witness ==
    /\ pc = "done"
    /\ \E j \in 1..Len(name_candidates) : \E k \in 1..Len(name_candidates) :
          /\ name_candidates[j].name = T_JOHN_SMITH
          /\ name_candidates[k].name = T_JOHN_SMITH
          /\ name_candidates[j].score = 66
          /\ name_candidates[k].score = 44

\* C6: Scenario A, whatever the geometry of its lines: the anchor is index 3 with
\* identifier "21BCE1234", the top candidate is the candidate "JOHN SMITH" of the
\* keyword pass, the name is "John Smith".
C6_ScenarioA ==
    (pc = "done" /\ lines = ScenarioA) =>
        /\ statusCode = 200
        /\ rg_index = 3
        /\ result.debug.rgFoundAt = 3
        /\ result.rgNumber = T_21BCE1234
        /\ result.debug.topCandidate =
              <<[name |-> T_JOHN_SMITH, score |-> 66, lines |-> 1, start_idx |-> 2,
                 end_idx |-> 3, raw_lines |-> <<T_JOHN_SMITH>>]>>
        /\ result.name = <<"J","o","h","n"," ","S","m","i","t","h">>

\* Scenario A has run on lines that are close: the two-line merge "NAME JOHN
\* SMITH" above the anchor is in the pool too
C6_Witness ==
    /\ pc = "done"
    /\ lines = ScenarioA
    /\ \E k \in 1..Len(name_candidates) :
          /\ name_candidates[k].lines = 2
          /\ name_candidates[k].name = <<"N","A","M","E"," ","J","O","H","N"," ","S","M","I","T","H">>

\* the line texts of a response; a missing collection counts as zero lines
SuppliedLines(resp) ==
    IF "Blocks" \in DOMAIN resp
    THEN LET ls == SelectSeq(resp.Blocks, LAMBDA b : b.BlockType = "LINE")
         IN  [k \in 1..Len(ls) |-> ls[k].Text]
    ELSE <<>>

\* no line of the response matches an identifier pattern
NoLineMatches(resp) ==
    \A k \in 1..Len(SuppliedLines(resp)) :
        LET c == SelectSeq(upper(SuppliedLines(resp)[k]), LAMBDA x : x \notin {" ", "-"})
        IN  \A n \in 1..3 : \A p \in 1..Len(c) : rg_patterns(n, c, p) = 0

NothingFound ==
    [name |-> Unknown, rgNumber |-> NotFound, success |-> TRUE,
     debug |-> [totalLines |-> Len(SuppliedLines(response)), rgFoundAt |-> -1,
                candidatesFound |-> 0, topCandidate |-> <<>>]]

\* C7: when no line matches an identifier pattern and no merge scores above 0,
\* the empty or missing line collection included, the extraction does not fail:
\* it returns "Not Found", -1, "Unknown", candidateCount 0 and no top candidate,
\* and the name normaliser is not run.
C7_NothingFoundIsNotAFailure ==
    (pc = "done" /\ NoLineMatches(response) /\ name_candidates = <<>>) =>
        /\ statusCode = 200
        /\ result = NothingFound
        /\ cleaned_name = <<>>

\* C7 for the responses that hold a line collection, the empty one included
C7_NothingFoundWhenCollectionPresent ==
    (pc = "done" /\ "Blocks" \in DOMAIN response /\ NoLineMatches(response)
        /\ name_candidates = <<>>) =>
        /\ statusCode = 200
        /\ result = NothingFound
        /\ cleaned_name = <<>>

Disqualified(text) ==
    LET t == strip(text)
        u == upper(t)
    IN  \/ Len(t) < 3
        \/ \E k \in 1..Len(skip_keywords) : Contains(u, skip_keywords[k])
        \/ \E p \in 1..(Len(RemoveChar(u, " ")) - 8) :
              IsStrictShape(SubSeq(RemoveChar(u, " "), p, p + 8))
        \/ 5 * Cardinality({k \in 1..Len(t) : t[k] \in Digits}) > Len(t)

\* C10: a merged text that is shorter than 3 characters once trimmed, or holds a
\* stop-list token, or an identifier-shaped substring once its spaces are removed,
\* or more than 20% digits, is scored exactly 0 and is not in the pool; and no
\* score is negative.
C10_DisqualifiersGiveZero ==
    /\ score >= 0
    /\ Disqualified(merged_text) => score = 0
    /\ \A k \in 1..Len(name_candidates) : ~Disqualified(name_candidates[k].name)

\* Scenario D: the two-line merge of a name and a line of digits was scored 0
C10_Witness ==
    /\ merged_text = <<"R","A","V","I"," ","K","U","M","A","R"," ","9","8","7","6","5","4","3">>
    /\ score = 0
    /\ pc \in {"above", "after_name", "keyword"}

\* a name of two or more tokens separated by single spaces, each token of two or
\* more letters, the first upper-case and the others lower-case
IsCleanName(x) ==
    /\ Len(x) >= 1
    /\ \A k \in 1..Len(x) : x[k] \in Letters \cup {" "}
    /\ x[1] # " " /\ x[Len(x)] # " "
    /\ \E k \in 1..Len(x) : x[k] = " "
    /\ \A k \in 1..(Len(x) - 1) : ~(x[k] = " " /\ x[k + 1] = " ")
    /\ \A k \in 1..Len(x) :
          x[k] # " " =>
             IF k = 1 \/ x[k - 1] = " "
             THEN x[k] \in UpperLetters /\ k < Len(x) /\ x[k + 1] # " "
             ELSE x[k] \in LowerLetters

\* a token of the name holds one of the truncated-name fragments
HasNameFragment(x) ==
    \E f \in {<<"a","m","a","n","e","n","i">>, <<"n","n","a","m","a","n","e","n","i">>, <<"n","a","m","a","n">>} :
        \E p \in 0..(Len(x) - Len(f)) : \A j \in 1..Len(f) : LowerChar(x[p + j]) = f[j]

\* C8 as stated: clean_and_correct_name returns every already-clean name
\* unchanged, and applying it twice gives what applying it once gives.
C8_CleanNamesUnchangedAndIdempotent ==
    /\ (pc = "cleaned" /\ IsCleanName(raw_name)) => cleaned_name = <<raw_name>>
    /\ pc = "recleaned" => cleaned_name = <<raw_name>>

\* C8 as amended: an already-clean name is returned unchanged when none of its
\* tokens holds the fragment "amaneni", "nnamaneni" or "naman"; and applying
\* clean_and_correct_name twice gives what applying it once gives.
C8_FragmentFreeCleanNamesUnchangedAndIdempotent ==
    /\ (pc = "cleaned" /\ IsCleanName(raw_name) /\ ~HasNameFragment(raw_name)) =>
          cleaned_name = <<raw_name>>
    /\ pc = "recleaned" => cleaned_name = <<raw_name>>

\* the clean name "John Smith" came back unchanged
C8_Witness ==
    /\ pc = "cleaned"
    /\ raw_name = <<"J","o","h","n"," ","S","m","i","t","h">>
    /\ cleaned_name = <<raw_name>>

\* C12: the anchor-relative pass generates candidates only when the anchor index
\* is greater than 0; every candidate it generates has a span length L of 1, 2 or
\* 3 and a span [start, start + L) with max(0, anchor - 6) <= start and
\* start + L <= anchor, so that the span holds neither the anchor line nor a
\* later line and its anchor distance anchor - (start + L - 1) is between 1 and 6.
C12_AnchorPassBounds ==
    [][(Len(name_candidates') = Len(name_candidates) + 1 /\ pc # "after_name") =>
          /\ pc = "above"
          /\ rg_index > 0
          /\ rg_index' = rg_index
          /\ Appended.lines \in {1, 2, 3}
          /\ Appended.start_idx >= 0
          /\ Appended.start_idx >= rg_index - 6
          /\ Appended.end_idx = Appended.start_idx + Appended.lines
          /\ Appended.end_idx <= rg_index
          /\ rg_index - (Appended.start_idx + Appended.lines - 1) \in 1..6
          /\ Appended.raw_lines = SubSeq(lines, Appended.start_idx + 1, Appended.end_idx)]_vars

\* the anchor is line 7: the pass has retained the line at index 1, at distance 6,
\* and has left out the line at index 0
C12_Witness ==
    /\ pc = "keyword"
    /\ rg_index = 7
    /\ \E k \in 1..Len(name_candidates) :
          name_candidates[k].start_idx = 1 /\ name_candidates[k].lines = 1
    /\ \A k \in 1..Len(name_candidates) : name_candidates[k].start_idx # 0

\* a line upper-cased and freed of spaces and hyphens
Searched(line) == SelectSeq(upper(line), LAMBDA c : c \notin {" ", "-"})

\* the match, in a searched line, of the strict pattern if there is one, else of
\* the 3-to-5-digit pattern if there is one, else of the spaced pattern; <<>> if
\* no pattern matches
PriorityMatch(c) ==
    LET strict == re_search(1, c)
        loose  == re_search(2, c)
    IN  IF strict # <<>> THEN strict
        ELSE IF loose # <<>> THEN loose
        ELSE re_search(3, c)

\* the anchor loop is over
AnchorSet == pc \notin {"handler", "extract", "anchor"}

\* the anchor is the first matching line and the identifier its priority match
AnchorIsFirstMatch ==
    LET found == [k \in 1..Len(lines) |-> PriorityMatch(Searched(lines[k]))]
        first == {k \in 1..Len(lines) : found[k] # <<>> /\ \A j \in 1..(k - 1) : found[j] = <<>>}
    IN  IF first = {}
        THEN rg_index = -1 /\ rg_number = NotFound
        ELSE \E k \in first : rg_index = k - 1 /\ rg_number = found[k]

\* C13: the anchor index is the lowest index of a line that matches at least one
\* identifier pattern, even when a later line matches a pattern of higher
\* priority; the identifier is the match, within that line, of the pattern of
\* highest priority that matches (strict, then 3 to 5 digits, then spaced); once
\* set, anchor and identifier are not changed by candidate generation, scoring
\* or selection, and they are what is returned.
C13_AnchorChoice ==
    /\ [](pc = "select" => AnchorIsFirstMatch)
    /\ [][AnchorSet =>
             /\ rg_index' = rg_index /\ rg_number' = rg_number
             /\ pc' = "return" =>
                   result'.rgNumber = rg_number /\ result'.debug.rgFoundAt = rg_index]_vars

\* the anchor is line 1, which the 3-to-5-digit pattern matches further left than
\* the strict pattern does; line 2 holds a registration number too; a name was
\* then selected
C13_Witness ==
    /\ pc = "done"
    /\ lines = ScenarioJ
    /\ rg_index = 1
    /\ rg_number = <<"2","2","B","C","E","1","2","3","4">>
    /\ re_search(2, Searched(lines[2])) = <<"2","1","B","C","E","1","2","3">>
    /\ re_search(1, Searched(lines[3])) # <<>>
    /\ cleaned_name # <<>>

\* C14: whenever an anchor is found, no candidate retained in the pool has a
\* span that includes the anchor line, keyword-pass spans included, also for an
\* anchor matched only by the 3-to-5-digit shape or written with hyphens.
C14_NoPoolSpanHoldsAnchor ==
    rg_index >= 0 =>
        \A k \in 1..Len(name_candidates) :
            ~(name_candidates[k].start_idx <= rg_index
                /\ rg_index < name_candidates[k].end_idx)

\* C14 for the anchors whose line holds the strict shape once its spaces are
\* removed, hyphens being kept
C14_NoPoolSpanHoldsStrictAnchor ==
    (rg_index >= 0
        /\ \E p \in 1..(Len(RemoveChar(upper(lines[rg_index + 1]), " ")) - 8) :
              IsStrictShape(SubSeq(RemoveChar(upper(lines[rg_index + 1]), " "), p, p + 8))) =>
        \A k \in 1..Len(name_candidates) :
            ~(name_candidates[k].start_idx <= rg_index
                /\ rg_index < name_candidates[k].end_idx)

\* a LINE block of the response lacks its text, its top or its height, or holds
\* None for it
HasFaultyLine(resp) ==
    /\ "Blocks" \in DOMAIN resp
    /\ \E k \in 1..Len(resp.Blocks) :
          /\ resp.Blocks[k].BlockType = "LINE"
          /\ \E key \in LineKeys : key \notin DOMAIN resp.Blocks[k]

\* C11: when a line record's text or geometry is missing or not interpretable,
\* the outcome returned to the caller is a failure, with success = false and an
\* error status; it is never a success = true result carrying the sentinels
\* "Unknown" / "Not Found".
C11_FaultyRecordGivesFailure ==
    (pc = "done" /\ HasFaultyLine(response)) =>
        /\ statusCode = 500
        /\ result.success = FALSE
        /\ ~(result.name = Unknown /\ result.rgNumber = NotFound)

\* C11 for the faults that make a step of the pipeline raise: the outcome is the
\* 500 response with success = false, and the names "Error Processing" / "ERROR"
C11_RaisedFaultIsReported ==
    [][pc = "except" =>
          /\ statusCode' = 500
          /\ result'.success = FALSE
          /\ result'.name = ErrorProcessing /\ result'.rgNumber = ErrorRg]_vars

=============================================================================
